---- MODULE Spec2Model ----
(***************************************************************************)
(* Model of the label-placement engine of PearlHunt                        *)
(* (src/src/utils/LabelPlacer.ts) and of the way ChartJsLabelPlugin        *)
(* (src/unnamed/part_000) drives it.                                       *)
(*                                                                         *)
(* Numbers.  The engine computes in IEEE doubles.  The model computes in   *)
(* fixed point: lengths in 1/100 px, scores in 1/100 point, cosines in     *)
(* 1/10000, angles in 1/320 of a turn (every angle the modelled option     *)
(* values produce is a multiple of it).  A score is a record               *)
(* [k |-> "fin" | "ninf" | "nan", v |-> Int]: the two non-finite kinds are *)
(* what the division by chartSize.width / 2 = 0 produces in doubles.       *)
(***************************************************************************)
EXTENDS Integers, Sequences, FiniteSets, TLC

VARIABLES
  chartSize,     \* LabelPlacer.chartSize
  options,       \* LabelPlacer.options
  tree,          \* LabelPlacer.tree: the entries of the index
  placedLabels,  \* LabelPlacer.placedLabels: what placeAll returns
  debugInfo,     \* LabelPlacer.debugInfo
  points,        \* the argument of the last placeAll call
  raised,        \* the last placeAll call threw instead of returning
  called,        \* placeAll has been called on this instance
  log,           \* history: the groups of the last pass, in processing order
  repeated,      \* history: the last call had the argument of the one before
  changed,       \* history: the last call had another argument than the one before
  optionsGiven,  \* history: the options argument of the constructor
  inputAfter,    \* the array passed to the last placeAll call, as the call left it
  cleared        \* history: clearDebugInfo() was called after the last pass

vars == <<chartSize, options, tree, placedLabels, debugInfo,
          points, raised, called, log, repeated, changed, optionsGiven,
          inputAfter, cleared>>

-----------------------------------------------------------------------------
(* Fixed-point helpers                                                     *)

Px(n) == n * 100

Abs(a) == IF a < 0 THEN -a ELSE a

Min2(a, b) == IF a < b THEN a ELSE b

Max2(a, b) == IF a > b THEN a ELSE b

\* Newton's iteration downwards from a guess x >= sqrt(n)
RECURSIVE SqrtFrom(_, _, _)
SqrtFrom(n, x, next) ==
  IF next >= x THEN x ELSE SqrtFrom(n, next, (next + n \div next) \div 2)

\* the iteration from the guess x: x, (x + n / x) / 2, ...
SqrtGuess(n, x) == SqrtFrom(n, x, (x + n \div x) \div 2)

\* Math.sqrt on a non-negative fixed-point square: the floor of the root
Sqrt(n) ==
  IF n = 0 THEN 0
  ELSE SqrtGuess(n, IF n < 10000 THEN 100
                    ELSE IF n < 1000000 THEN 1000
                    ELSE IF n < 100000000 THEN 10000
                    ELSE 46341)

\* cos(2*pi*k/320) * 10000 for k = 0..80 (first quarter turn)
CosTab ==
  <<10000, 9998, 9992, 9983, 9969, 9952, 9931, 9906, 9877, 9844,
    9808, 9768, 9724, 9676, 9625, 9569, 9511, 9448, 9382, 9312,
    9239, 9162, 9081, 8997, 8910, 8819, 8725, 8627, 8526, 8422,
    8315, 8204, 8090, 7973, 7853, 7730, 7604, 7475, 7343, 7209,
    7071, 6931, 6788, 6643, 6494, 6344, 6191, 6036, 5878, 5718,
    5556, 5391, 5225, 5057, 4886, 4714, 4540, 4364, 4187, 4007,
    3827, 3645, 3461, 3276, 3090, 2903, 2714, 2525, 2334, 2143,
    1951, 1758, 1564, 1370, 1175, 980, 785, 589, 393, 196, 0>>

\* Math.cos of the angle k/320 turn, times 10000
Cos(k) ==
  LET m == k % 320
  IN  IF m <= 80 THEN CosTab[m + 1]
      ELSE IF m <= 160 THEN -CosTab[160 - m + 1]
      ELSE IF m <= 240 THEN -CosTab[m - 160 + 1]
      ELSE CosTab[320 - m + 1]

\* Math.sin of the angle k/320 turn, times 10000
Sin(k) == Cos(k + 240)

\* r * cos (or r * sin), rounded to the nearest 1/100 px
Times(r, c) == (r * c + 5000) \div 10000

\* Math.round of a length in 1/100 px: the nearest integer, halves upwards
MathRound(a) == (a + 50) \div 100

-----------------------------------------------------------------------------
(* Scores: IEEE doubles restricted to the values the engine produces       *)

Fin(v) == [k |-> "fin", v |-> v]

NegInf == [k |-> "ninf", v |-> 0]

NaN == [k |-> "nan", v |-> 0]

\* score + d for a finite d
Plus(s, d) == IF s.k = "fin" THEN Fin(s.v + d) ELSE s

\* score + t for a term that may itself be non-finite
PlusScore(s, t) ==
  IF s.k = "nan" \/ t.k = "nan" THEN NaN
  ELSE IF s.k = "ninf" \/ t.k = "ninf" THEN NegInf
  ELSE Fin(s.v + t.v)

\* s <= bound, as the double comparison decides it (false for NaN)
ScoreLeq(s, bound) ==
  CASE s.k = "fin" -> s.v <= bound
    [] s.k = "ninf" -> TRUE
    [] OTHER -> FALSE

\* the sign of the comparator (a, b) => b.score - a.score; a NaN difference
\* (NaN operand, or -Infinity - -Infinity) is read as 0 by Array.prototype.sort
CompareDesc(a, b) ==
  IF a.k = "fin" /\ b.k = "fin"
    THEN (IF b.v > a.v THEN 1 ELSE IF b.v < a.v THEN -1 ELSE 0)
  ELSE IF a.k = "nan" \/ b.k = "nan" THEN 0
  ELSE IF a.k = "ninf" /\ b.k = "ninf" THEN 0
  ELSE IF a.k = "ninf" THEN 1
  ELSE -1

-----------------------------------------------------------------------------
(* Constants of LabelPlacer.ts                                             *)

pointRadius == 6

boundaryBuffer == 1

\* exclusionRadius = pointRadius + boundaryBuffer, in 1/100 px
exclusionRadius == Px(pointRadius + boundaryBuffer)

labelPadding == 2

margin == 1

primaryAngles == 64

borderThreshold == 10

\* the literal 100000 of the overlap penalty, the boundary penalty and the
\* drop threshold, in 1/100 point
Massive == 100000 * 100

\* the values the plugin passes, taken for the defaults
DEFAULT_OPTIONS_OfPlugin ==
  [radius |-> 10, rings |-> 5, anglesPerRing |-> 32, padding |-> 0,
   overlapPenalty |-> 100000, pointPenalty |-> 500, outOfBoundsPenalty |-> 0,
   idealAngleBonus |-> 0, debug |-> FALSE]

DEFAULT_OPTIONS ==
  [radius |-> 10, rings |-> 5, anglesPerRing |-> 32, padding |-> 4,
   overlapPenalty |-> 1000, pointPenalty |-> 500, outOfBoundsPenalty |-> 300,
   idealAngleBonus |-> 0, debug |-> FALSE]

\* { ...DEFAULT_OPTIONS, ...options }: a key given by the caller wins
MergeOptions(given) ==
  [f \in DOMAIN DEFAULT_OPTIONS |->
     IF f \in DOMAIN given THEN given[f] ELSE DEFAULT_OPTIONS[f]]

-----------------------------------------------------------------------------
(* generateCandidates                                                      *)

Candidate(x, y) == [x |-> x, y |-> y, rotation |-> 0, score |-> Fin(0)]

\* Math.max(lo, Math.min(v, hi))
Clamp(v, lo, hi) == Max2(lo, Min2(v, hi))

\* Math.abs(cos) > Math.abs(sin) at angle k/320 turn.  On the diagonals the
\* doubles differ in the last bit: cos(pi/4) = 0.7071067811865476 >
\* sin(pi/4) = 0.7071067811865475, and likewise at 5 pi / 4, while at
\* 3 pi / 4 and 7 pi / 4 the sine is the larger one.
HorizontalCloser(k) ==
  IF Abs(Cos(k)) = Abs(Sin(k)) THEN k % 320 \in {40, 200}
  ELSE Abs(Cos(k)) > Abs(Sin(k))

\* the candidate is kept when Math.sqrt(dx^2 + dy^2) >= exclusionRadius,
\* (dx, dy) from the anchor to the centre of the candidate rectangle
FarEnough(pt, x, y) ==
  LET dx == x + pt.width \div 2 - pt.x
      dy == y + pt.height \div 2 - pt.y
  IN  dx * dx + dy * dy >= exclusionRadius * exclusionRadius

\* a position left where the ring put it
ClampToChartNot(size, pt, x, y) == <<x, y>>

\* the clamped position of one primary or expanding candidate
ClampToChart(size, pt, x, y) ==
  LET minX == Px(margin)
      minY == Px(margin)
      maxX == size.width - Px(margin) - pt.width
      maxY == size.height - Px(margin) - pt.height
  IN  <<Clamp(x, minX, maxX), Clamp(y, minY, maxY)>>

\* (dx, dy) of the primary candidate at angle k/320 turn
PrimaryOffset(pt, k) ==
  IF HorizontalCloser(k)
    THEN <<IF Cos(k) > 0 THEN exclusionRadius ELSE -exclusionRadius - pt.width,
           Times(exclusionRadius, Sin(k)) - pt.height \div 2>>
    ELSE <<Times(exclusionRadius, Cos(k)) - pt.width \div 2,
           IF Sin(k) > 0 THEN exclusionRadius ELSE -exclusionRadius - pt.height>>

\* candidateX = pt.x + dx, candidateY = pt.y + dy, then clamped
ClampedAt(size, pt, d) == ClampToChart(size, pt, pt.x + d[1], pt.y + d[2])

\* body of the primary loop for index i (0-based)
PrimaryAt(size, pt, i) ==
  ClampedAt(size, pt, PrimaryOffset(pt, i * (320 \div primaryAngles)))

\* no distance filter: every clamped position becomes a candidate
KeepAll(pt, xys) == [j \in 1..Len(xys) |-> Candidate(xys[j][1], xys[j][2])]

KeepFar(pt, xys) ==
  LET kept == SelectSeq(xys, LAMBDA p : FarEnough(pt, p[1], p[2]))
  IN  [j \in 1..Len(kept) |-> Candidate(kept[j][1], kept[j][2])]

PrimaryRing(size, pt) ==
  KeepFar(pt, [j \in 1..primaryAngles |-> PrimaryAt(size, pt, j - 1)])

\* Math.max(8, Math.floor(anglesPerRing / (r + 1)))
ExpandingAngles(opts, r) == Max2(8, opts.anglesPerRing \div (r + 1))

\* (dx, dy) at distance rad and angle k/320 turn
Polar(rad, k) == <<Times(rad, Cos(k)), Times(rad, Sin(k))>>

\* body of the expanding loop: ring r (1-based), index i (0-based); the
\* radius is exclusionRadius * (1 + r * 0.5)
ExpandingAt(size, opts, pt, r, i) ==
  ClampedAt(size, pt, Polar((exclusionRadius * (2 + r)) \div 2,
                            i * (320 \div ExpandingAngles(opts, r))))

RECURSIVE ExpandingFrom(_, _, _, _)
ExpandingFrom(size, opts, pt, r) ==
  IF r >= opts.rings THEN <<>>
  ELSE KeepFar(pt, [j \in 1..ExpandingAngles(opts, r) |->
                      ExpandingAt(size, opts, pt, r, j - 1)])
       \o ExpandingFrom(size, opts, pt, r + 1)

ExpandingRings(size, opts, pt) == ExpandingFrom(size, opts, pt, 1)

\* x = pt.x + r cos - width / 2, y = pt.y + r sin - height / 2
Around(pt, d) ==
  Candidate(pt.x + d[1] - pt.width \div 2, pt.y + d[2] - pt.height \div 2)

\* number of iterations of a "ring 1..rings, i 0..anglesPerRing-1" loop nest
RingSteps(opts) ==
  IF opts.rings > 0 /\ opts.anglesPerRing > 0
    THEN opts.rings * opts.anglesPerRing ELSE 0

\* body of the fallback loop: r = exclusionRadius + ring * 5
FallbackAt(opts, pt, ring, i) ==
  Around(pt, Polar(exclusionRadius + ring * Px(5),
                   i * (320 \div opts.anglesPerRing)))

FallbackRings(opts, pt) ==
  [j \in 1..RingSteps(opts) |->
     FallbackAt(opts, pt, (j - 1) \div opts.anglesPerRing + 1,
                (j - 1) % opts.anglesPerRing)]

\* body of the half-step loop: r = Math.max(exclusionRadius, radius * ring),
\* angle = i * angleStep + angleStep / 2
HalfStepAt(opts, pt, ring, i) ==
  Around(pt, Polar(Max2(exclusionRadius, Px(opts.radius) * ring),
                   i * (320 \div opts.anglesPerRing)
                     + 160 \div opts.anglesPerRing))

HalfStepRings(opts, pt) ==
  [j \in 1..RingSteps(opts) |->
     HalfStepAt(opts, pt, (j - 1) \div opts.anglesPerRing + 1,
                (j - 1) % opts.anglesPerRing)]

generateCandidates(size, opts, pt) ==
  PrimaryRing(size, pt) \o ExpandingRings(size, opts, pt)
    \o FallbackRings(opts, pt) \o HalfStepRings(opts, pt)

-----------------------------------------------------------------------------
(* Rectangles and the spatial index                                        *)

\* toRTreeBox(label), padding = 2
toRTreeBox(label) ==
  [minX |-> label.x - Px(labelPadding),
   minY |-> label.y - Px(labelPadding),
   maxX |-> label.x + label.width + Px(labelPadding),
   maxY |-> label.y + label.height + Px(labelPadding),
   ref |-> label]

\* rbush's intersects(a, b): closed boxes, touching counts
Intersects(a, b) ==
  /\ b.minX <= a.maxX
  /\ b.minY <= a.maxY
  /\ b.maxX >= a.minX
  /\ b.maxY >= a.minY

\* this.tree.search(query): the entries intersecting the query box
TreeSearch(tr, query) == SelectSeq(tr, LAMBDA e : Intersects(query, e))

\* an insert that stores the box twice
TreeInsertTwice(tr, box) == Append(Append(tr, box), box)

\* this.tree.insert(box)
TreeInsert(tr, box) == Append(tr, box)

\* an index that keeps its entries
TreeClearKept(tr) == tr

\* a clear that leaves the oldest entry in the index
TreeClearButFirst(tr) == IF tr = << >> THEN << >> ELSE <<tr[1]>>

\* this.tree.clear()
TreeClear(tr) == << >>

pointInRect(px, py, rect) ==
  /\ px >= rect.x
  /\ px <= rect.x + rect.width
  /\ py >= rect.y
  /\ py <= rect.y + rect.height

isOutOfBounds(size, box) ==
  \/ box.x < Px(margin)
  \/ box.y < Px(margin)
  \/ box.x + box.width > size.width - Px(margin)
  \/ box.y + box.height > size.height - Px(margin)

-----------------------------------------------------------------------------
(* placeLabelForPoint: the scoring of one candidate                        *)

\* 1) overlap with the labels already in the index
OverlapTerm(tr, pt, c) ==
  LET collisions ==
        TreeSearch(tr, [minX |-> c.x - Px(labelPadding),
                        minY |-> c.y - Px(labelPadding),
                        maxX |-> c.x + pt.width + Px(labelPadding),
                        maxY |-> c.y + pt.height + Px(labelPadding)])
  IN  -(Massive * Len(collisions))

\* 2) covering other data points; pt.allPoints is the array the caller
\* attached (the input list) or is absent; "otherPt === pt" is object identity
PointTerm(opts, all, pt, c) ==
  IF pt.hasAll
    THEN LET covered ==
               {i \in DOMAIN all :
                  /\ all[i].id # pt.id
                  /\ pointInRect(all[i].x, all[i].y,
                                 [x |-> c.x, y |-> c.y,
                                  width |-> pt.width, height |-> pt.height])}
         IN  -(Px(opts.pointPenalty) * Cardinality(covered))
    ELSE 0

\* 2.5) border proximity: ((10 - minBorderDistance) / 10)^2 * 100
BorderTerm(size, pt, c) ==
  LET labelCenterX == c.x + pt.width \div 2
      labelCenterY == c.y + pt.height \div 2
      minBorderDistance ==
        Min2(Min2(labelCenterX, size.width - labelCenterX),
             Min2(labelCenterY, size.height - labelCenterY))
      t == Px(borderThreshold) - minBorderDistance
  IN  IF minBorderDistance < Px(borderThreshold) THEN -((t * t) \div 100) ELSE 0

\* |labelCenter - center| / (chartSize / 2) in 1/1000, or what the double
\* division by zero gives: infinite for a non-zero numerator, NaN for 0 / 0
Normalised(num, half) ==
  IF half = 0 THEN (IF num = 0 THEN NaN ELSE [k |-> "inf", v |-> 0])
  ELSE Fin((Abs(num) * 1000) \div half)

\* 2.6) centerBonus = (1 - sqrt(dx^2 + dy^2) / SQRT2) * 10
CenterTerm(size, pt, c) ==
  LET labelCenterX == c.x + pt.width \div 2
      labelCenterY == c.y + pt.height \div 2
      dx == Normalised(labelCenterX - size.width \div 2, size.width \div 2)
      dy == Normalised(labelCenterY - size.height \div 2, size.height \div 2)
  IN  IF dx.k = "nan" \/ dy.k = "nan" THEN NaN
      ELSE IF dx.k = "inf" \/ dy.k = "inf" THEN NegInf
      ELSE Fin(1000 - Sqrt((dx.v * dx.v + dy.v * dy.v) \div 2))

\* an out-of-bounds penalty that disqualifies the candidate
OutOfBoundsTermVeto(size, opts, pt, c) ==
  IF isOutOfBounds(size, [x |-> c.x, y |-> c.y,
                          width |-> pt.width, height |-> pt.height])
    THEN -Massive
    ELSE 0

\* an out-of-bounds penalty that disqualifies the candidate when debug is on
OutOfBoundsTermWhenDebug(size, opts, pt, c) ==
  IF isOutOfBounds(size, [x |-> c.x, y |-> c.y,
                          width |-> pt.width, height |-> pt.height])
    THEN (IF opts.debug THEN -Massive ELSE -Px(opts.outOfBoundsPenalty))
    ELSE 0

\* 3) out-of-bounds penalty
OutOfBoundsTerm(size, opts, pt, c) ==
  IF isOutOfBounds(size, [x |-> c.x, y |-> c.y,
                          width |-> pt.width, height |-> pt.height])
    THEN -Px(opts.outOfBoundsPenalty)
    ELSE 0

\* 4) distance from the anchor to the label centre, 10 points per pixel
DistanceTerm(pt, c) ==
  LET dx == c.x + pt.width \div 2 - pt.x
      dy == c.y + pt.height \div 2 - pt.y
  IN  -(10 * Sqrt(dx * dx + dy * dy))

\* the score after the first loop (the one debugCandidates records)
ScoreOf(size, opts, tr, all, pt, c) ==
  Plus(PlusScore(Fin(OverlapTerm(tr, pt, c) + PointTerm(opts, all, pt, c)
                     + BorderTerm(size, pt, c)),
                 CenterTerm(size, pt, c)),
       OutOfBoundsTerm(size, opts, pt, c) + DistanceTerm(pt, c))

\* a corner within exclusionRadius of the anchor (Math.sqrt(d2) < 7)
CornerInside(pt, x, y) ==
  (x - pt.x) * (x - pt.x) + (y - pt.y) * (y - pt.y)
     < exclusionRadius * exclusionRadius

\* a second loop that vetoes nothing
ViolatesBoundaryNever(pt, c) == FALSE

\* second loop: a corner inside the exclusion zone, or the rectangle
\* overlapping the zone's bounding square
ViolatesBoundary(pt, c) ==
  LET labelLeft == c.x
      labelRight == c.x + pt.width
      labelTop == c.y
      labelBottom == c.y + pt.height
      violatesBoundary ==
        \/ CornerInside(pt, labelLeft, labelTop)
        \/ CornerInside(pt, labelRight, labelTop)
        \/ CornerInside(pt, labelLeft, labelBottom)
        \/ CornerInside(pt, labelRight, labelBottom)
      overlapsHorizontally ==
        labelLeft < pt.x + exclusionRadius /\ labelRight > pt.x - exclusionRadius
      overlapsVertically ==
        labelTop < pt.y + exclusionRadius /\ labelBottom > pt.y - exclusionRadius
  IN  (overlapsHorizontally /\ overlapsVertically) \/ violatesBoundary

-----------------------------------------------------------------------------
(* placeLabelForPoint                                                      *)

\* scored.sort((a, b) => b.score - a.score)[0] over scored[lo..hi]: the
\* sort is stable, so the head is the first candidate, in generation order,
\* that no other candidate precedes under the comparator.  (Halving keeps the
\* evaluation shallow; the result is that of a left-to-right scan.)
RECURSIVE SortedHead(_, _, _)
SortedHeadLast(scored, lo, hi) == hi

\* a scan that prefers the later of two candidates of equal score
RECURSIVE SortedHeadTiesLast(_, _, _)
SortedHeadTiesLast(scored, lo, hi) ==
  IF lo = hi THEN lo
  ELSE LET mid == (lo + hi) \div 2
           left == SortedHeadTiesLast(scored, lo, mid)
           right == SortedHeadTiesLast(scored, mid + 1, hi)
       IN  IF CompareDesc(scored[left].score, scored[right].score) >= 0
             THEN right ELSE left

SortedHead(scored, lo, hi) ==
  IF lo = hi THEN lo
  ELSE LET mid == (lo + hi) \div 2
           left == SortedHead(scored, lo, mid)
           right == SortedHead(scored, mid + 1, hi)
       IN  IF CompareDesc(scored[left].score, scored[right].score) > 0
             THEN right ELSE left

\* the returned LabelBox; forPoint is the Point the call was made for
LabelFor(pt, chosen) ==
  [x |-> chosen.x, y |-> chosen.y, width |-> pt.width, height |-> pt.height,
   rotation |-> chosen.rotation, text |-> pt.text, forPoint |-> pt]

\* an element of scored that the second loop leaves as the first loop made it
ScoredOnce(pt, c, first) ==
  [x |-> c.x, y |-> c.y, rotation |-> c.rotation, first |-> first,
   score |-> first]

\* one element of scored: first is the score the first loop leaves (and
\* debugCandidates records), score the one the sort sees
Scored(pt, c, first) ==
  [x |-> c.x, y |-> c.y, rotation |-> c.rotation, first |-> first,
   score |-> Plus(first, IF ViolatesBoundary(pt, c) THEN -Massive ELSE 0)]

\* both scoring loops over the candidates
ScoreAll(size, opts, tr, all, pt, candidates) ==
  [j \in 1..Len(candidates) |->
     Scored(pt, candidates[j],
            ScoreOf(size, opts, tr, all, pt, candidates[j]))] \o << >>

\* an entry that records the first candidate only
DebugEntryFirstOnly(pt, scored, placed) ==
  [point |-> pt,
   candidates |-> <<[x |-> scored[1].x, y |-> scored[1].y,
                     score |-> scored[1].first]>>,
   selectedCandidateIndex |-> 0,
   placedLabels |-> [j \in 1..Len(placed) |->
                       [x |-> placed[j].x, y |-> placed[j].y,
                        text |-> placed[j].text]]]

\* the DebugInfo entry pushed for a placed label
DebugEntry(pt, scored, placed) ==
  [point |-> pt,
   candidates |-> [j \in 1..Len(scored) |->
                     [x |-> scored[j].x, y |-> scored[j].y,
                      score |-> scored[j].first]],
   \* scored.findIndex(c => c === chosen) in the sorted array
   selectedCandidateIndex |-> 0,
   placedLabels |-> [j \in 1..Len(placed) |->
                       [x |-> placed[j].x, y |-> placed[j].y,
                        text |-> placed[j].text]]]

\* what the call does once chosen = scored[head] is known (head = 0: scored
\* is empty, chosen is undefined and reading chosen.score raises a TypeError)
Outcome(pt, placed, scored, head) ==
  IF head = 0
    THEN [kind |-> "throw", scored |-> scored, chosen |-> head,
          label |-> << >>, debug |-> << >>]
  ELSE IF ScoreLeq(scored[head].score, -Massive)
    THEN [kind |-> "null", scored |-> scored, chosen |-> head,
          label |-> << >>, debug |-> << >>]
  ELSE [kind |-> "label", scored |-> scored, chosen |-> head,
        label |-> <<LabelFor(pt, scored[head])>>,
        debug |-> <<DebugEntry(pt, scored, placed)>>]

Choose(pt, placed, scored) ==
  Outcome(pt, placed, scored,
          IF Len(scored) = 0 THEN 0 ELSE SortedHead(scored, 1, Len(scored)))

\* One call: kind "throw", "null" (label skipped) or "label"; scored and
\* chosen are reported for the pass log.
placeLabelForPoint(size, opts, tr, placed, all, pt) ==
  Choose(pt, placed,
         ScoreAll(size, opts, tr, all, pt, generateCandidates(size, opts, pt)))

-----------------------------------------------------------------------------
(* placeAll                                                                *)

\* String.prototype.trim on a text given as its sequence of characters
RECURSIVE TrimLeft(_)
TrimLeft(t) == IF t # << >> /\ Head(t) = " " THEN TrimLeft(Tail(t)) ELSE t

RECURSIVE TrimRight(_)
TrimRight(t) ==
  IF t # << >> /\ t[Len(t)] = " " THEN TrimRight(SubSeq(t, 1, Len(t) - 1)) ELSE t

Trim(t) == TrimRight(TrimLeft(t))

\* no filter: every point goes on to the grouping
pointsWithLabelsAll(pts) == pts

\* points.filter(pt => pt.text && pt.text.trim() !== '')
pointsWithLabels(pts) ==
  SelectSeq(pts, LAMBDA pt : pt.text # << >> /\ Trim(pt.text) # << >>)

\* `${Math.round(pt.x)},${Math.round(pt.y)}`
GroupKey(pt) == <<MathRound(pt.x), MathRound(pt.y)>>

\* the Map's entries in insertion order: one group per key, at the place of
\* the key's first point, members in input order
pointGroups(pwl) ==
  LET firsts == SelectSeq([i \in 1..Len(pwl) |-> i],
                          LAMBDA i : \A j \in 1..(i - 1) :
                                       GroupKey(pwl[j]) # GroupKey(pwl[i]))
  IN  [g \in 1..Len(firsts) |->
         SelectSeq(pwl, LAMBDA pt : GroupKey(pt) = GroupKey(pwl[firsts[g]]))]

\* .sort(([, a], [, b]) => a[0].y - b[0].y): stable, ascending
\* an insertion that puts a group before the groups of equal y
RECURSIVE InsertByYTiesFirst(_, _)
InsertByYTiesFirst(sorted, g) ==
  IF sorted = << >> THEN <<g>>
  ELSE IF sorted[Len(sorted)][1].y - g[1].y < 0 THEN Append(sorted, g)
  ELSE Append(InsertByYTiesFirst(SubSeq(sorted, 1, Len(sorted) - 1), g),
              sorted[Len(sorted)])

RECURSIVE InsertByY(_, _)
InsertByY(sorted, g) ==
  IF sorted = << >> THEN <<g>>
  ELSE IF sorted[Len(sorted)][1].y - g[1].y <= 0 THEN Append(sorted, g)
  ELSE Append(InsertByY(SubSeq(sorted, 1, Len(sorted) - 1), g),
              sorted[Len(sorted)])

\* the groups left in the Map's order
SortByYKept(groups) == groups

RECURSIVE SortByY(_)
SortByY(groups) ==
  IF groups = << >> THEN << >>
  ELSE InsertByY(SortByY(SubSeq(groups, 1, Len(groups) - 1)),
                 groups[Len(groups)])

sortedGroups(pts) == SortByY(pointGroups(pointsWithLabels(pts)))

\* groupPoints.map(p => p.text).join(', ')
RECURSIVE JoinTexts(_)
JoinTexts(group) ==
  IF Len(group) = 1 THEN group[1].text
  ELSE group[1].text \o <<",", " ">> \o JoinTexts(Tail(group))

\* Math.max(...groupPoints.map(p => p.width)) and the same for height
RECURSIVE MaxOf(_)
MaxOf(nums) ==
  IF Len(nums) = 1 THEN nums[1] ELSE Max2(nums[1], MaxOf(Tail(nums)))

\* the first point standing for its whole group
combinedPointFirst(groupPoints) == [groupPoints[1] EXCEPT !.id = 0]

\* { ...firstPoint, text, width, height }: a new object (id 0 is the
\* identity of no input point)
combinedPoint(groupPoints) ==
  [groupPoints[1] EXCEPT
     !.id = 0,
     !.text = JoinTexts(groupPoints),
     !.width = MaxOf([j \in 1..Len(groupPoints) |-> groupPoints[j].width]),
     !.height = MaxOf([j \in 1..Len(groupPoints) |-> groupPoints[j].height])]

\* the Point handed to placeLabelForPoint for a group
PointOfGroup(groupPoints) ==
  IF Len(groupPoints) > 1 THEN combinedPoint(groupPoints) ELSE groupPoints[1]

\* the history entry of one processed group
LogEntry(groupPoints, pt, r, st) ==
  [pt |-> pt, members |-> groupPoints, kind |-> r.kind, scored |-> r.scored,
   chosen |-> r.chosen, treeBefore |-> st.tree]

\* the loop body once placeLabelForPoint has returned r (or thrown); st holds
\* this.tree, this.placedLabels, this.debugInfo, whether the pass has
\* thrown, and the history of the groups processed
AfterGroup(st, r, entry) ==
  IF r.kind = "throw" THEN [st EXCEPT !.raised = TRUE, !.log = Append(@, entry)]
  ELSE IF r.kind = "null" THEN [st EXCEPT !.log = Append(@, entry)]
  ELSE [tree |-> TreeInsert(st.tree, toRTreeBox(r.label[1])),
        placedLabels |-> Append(st.placedLabels, r.label[1]),
        debugInfo |-> st.debugInfo \o r.debug,
        raised |-> FALSE,
        log |-> Append(st.log, entry),
        input |-> st.input]

GroupResult(groupPoints, pt, st, r) ==
  AfterGroup(st, r, LogEntry(groupPoints, pt, r, st))

\* the loop body for one group
PlaceGroup(size, opts, all, groupPoints, pt, st) ==
  GroupResult(groupPoints, pt, st,
              placeLabelForPoint(size, opts, st.tree, st.placedLabels, all, pt))

\* Object.assign(firstPoint, { text, width, height }) in the place of the
\* spread: the first member of a merged group is overwritten
InputAfterCombineAssigned(input, groupPoints) ==
  IF Len(groupPoints) > 1
    THEN [input EXCEPT ![groupPoints[1].id] =
            [@ EXCEPT !.text = JoinTexts(groupPoints),
                      !.width = MaxOf([j \in 1..Len(groupPoints) |->
                                         groupPoints[j].width]),
                      !.height = MaxOf([j \in 1..Len(groupPoints) |->
                                          groupPoints[j].height])]]
    ELSE input

\* what forming the Point of a group does to the caller's array: the spread
\* { ...firstPoint, ... } copies, and nothing is assigned to a member
InputAfterCombine(input, groupPoints) == input

\* st once the Point of the group has been formed
Combined(st, groupPoints) ==
  [st EXCEPT !.input = InputAfterCombine(@, groupPoints)]

\* the loop over sortedGroups from index g on; a throw ends it
RECURSIVE PlaceFrom(_, _, _, _, _, _)
PlaceFrom(size, opts, all, groups, g, st) ==
  IF g > Len(groups) \/ st.raised THEN st
  ELSE PlaceFrom(size, opts, all, groups, g + 1,
                 PlaceGroup(size, opts, all, groups[g],
                            PointOfGroup(groups[g]), Combined(st, groups[g])))

\* a pass that starts without this.debugInfo = []
placeAllKeepingDebugInfo(size, opts, tr, pts) ==
  PlaceFrom(size, opts, pts, sortedGroups(pts), 1,
            [tree |-> TreeClear(tr), placedLabels |-> << >>,
             debugInfo |-> debugInfo, raised |-> FALSE, log |-> << >>,
             input |-> pts])

\* placeAll(points) on an engine whose index holds tr
placeAll(size, opts, tr, pts) ==
  PlaceFrom(size, opts, pts, sortedGroups(pts), 1,
            [tree |-> TreeClear(tr), placedLabels |-> << >>,
             debugInfo |-> << >>, raised |-> FALSE, log |-> << >>,
             input |-> pts])

-----------------------------------------------------------------------------
(* Inputs                                                                  *)

\* longest anchor list handed to placeAll
MaxPoints == 2

Anchor(x, y, text, w, h, hasAll) ==
  [x |-> x, y |-> y, text |-> text, width |-> w, height |-> h, hasAll |-> hasAll]

\* the anchors a caller passes (1/100 px) on a chart of 100 px: two that
\* round to the same pixel, one without allPoints, one next to the top
\* edge, and one whose text is blank
ChartAnchors ==
  { Anchor(5000, 5000, <<"A">>, 1000, 1000, TRUE),
    Anchor(5040, 4960, <<"B">>, 2000, 800, TRUE),
    Anchor(5200, 6000, <<"C">>, 1000, 1000, FALSE),
    Anchor(600, 0, <<"A">>, 1000, 1000, TRUE),
    Anchor(5000, 5000, <<" ">>, 3000, 3000, TRUE) }

\* the anchors a caller passes on an area no larger than one label
CornerAnchors ==
  { Anchor(500, 500, <<"A">>, 1000, 1000, TRUE),
    Anchor(600, 0, <<"A">>, 1000, 1000, TRUE),
    Anchor(700, 0, <<"B">>, 1000, 1000, TRUE),
    Anchor(0, 0, <<"D">>, 1000, 1000, TRUE),
    Anchor(500, 500, << >>, 3000, 3000, TRUE),
    Anchor(2000, 2000, <<"E">>, 1000, 1000, TRUE) }

\* the anchors a caller passes on an area of no extent: those of the small
\* area, and one on the top edge whose label is wider than 10 px
ZeroAnchors ==
  CornerAnchors \cup { Anchor(1100, 0, <<"W">>, 2000, 1000, TRUE) }

Anchors(size) ==
  IF size.width >= Px(100) THEN ChartAnchors
  ELSE IF size.width = 0 THEN ZeroAnchors
  ELSE CornerAnchors

RECURSIVE ListsUpTo(_, _)
ListsUpTo(S, n) ==
  IF n = 0 THEN { << >> }
  ELSE LET shorter == ListsUpTo(S, n - 1)
       IN  shorter \cup { Append(l, a) : l \in shorter, a \in S }

PointLists(size) == ListsUpTo(Anchors(size), MaxPoints)

\* the objects of one call: the k-th element of the array has identity k
WithIds(pts) ==
  [k \in 1..Len(pts) |->
     [id |-> k, x |-> pts[k].x, y |-> pts[k].y, text |-> pts[k].text,
      width |-> pts[k].width, height |-> pts[k].height,
      hasAll |-> pts[k].hasAll]]

\* the plugin's options argument (part_000, lines 147-157)
PluginOptions ==
  [radius |-> 10, rings |-> 5, anglesPerRing |-> 32, debug |-> TRUE,
   padding |-> 0, overlapPenalty |-> 100000, pointPenalty |-> 500,
   outOfBoundsPenalty |-> 0, idealAngleBonus |-> 0]

\* the constructor calls explored: chart area (1/100 px) and options
\* argument (<< >> is "no options")
Setups ==
  { <<[width |-> 10000, height |-> 10000], PluginOptions>>,
    <<[width |-> 10000, height |-> 10000], << >> >>,
    <<[width |-> 10000, height |-> 10000], [rings |-> 0]>>,
    <<[width |-> 10000, height |-> 10000], [rings |-> 1, anglesPerRing |-> 8]>>,
    <<[width |-> 10000, height |-> 10000],
      [radius |-> 5, rings |-> 1, anglesPerRing |-> 8]>>,
    <<[width |-> 1000, height |-> 1000], [rings |-> 0]>>,
    <<[width |-> 1000, height |-> 1000], [rings |-> 0, debug |-> TRUE]>>,
    <<[width |-> 1000, height |-> 1000], [rings |-> 1, anglesPerRing |-> 8]>>,
    <<[width |-> 1000, height |-> 1000],
      [rings |-> 1, anglesPerRing |-> 8, outOfBoundsPenalty |-> 100000]>>,
    <<[width |-> 0, height |-> 0], [rings |-> 0]>>,
    <<[width |-> 0, height |-> 0], [rings |-> 1, anglesPerRing |-> 8]>> }

-----------------------------------------------------------------------------
(* The engine                                                              *)

\* new LabelPlacer(chartSize, options)
Init ==
  /\ \E setup \in Setups : /\ chartSize = setup[1]
                            /\ optionsGiven = setup[2]
                            /\ options = MergeOptions(setup[2])
  /\ tree = << >>
  /\ placedLabels = << >>
  /\ debugInfo = << >>
  /\ points = << >>
  /\ raised = FALSE
  /\ called = FALSE
  /\ log = << >>
  /\ repeated = FALSE
  /\ changed = FALSE
  /\ inputAfter = << >>
  /\ cleared = FALSE

\* the state a placeAll(pts) call that computed st leaves
Returned(pts, st) ==
  /\ tree' = st.tree
  /\ placedLabels' = st.placedLabels
  /\ debugInfo' = st.debugInfo
  /\ raised' = st.raised
  /\ log' = st.log
  /\ points' = pts
  /\ called' = TRUE
  /\ repeated' = (called /\ pts = points)
  /\ changed' = (called /\ pts # points)
  /\ inputAfter' = st.input
  /\ cleared' = FALSE
  /\ UNCHANGED <<chartSize, options, optionsGiven>>

\* placer.placeAll(pts)
PlaceAllCall(pts) ==
  Returned(WithIds(pts), placeAll(chartSize, options, tree, WithIds(pts)))

\* the plugin's use: one placeAll on a new instance
PlaceAll ==
  /\ ~called
  /\ \E pts \in PointLists(chartSize) : PlaceAllCall(pts)

\* placer.clearDebugInfo()
ClearDebugInfo ==
  /\ debugInfo # << >>
  /\ debugInfo' = << >>
  /\ cleared' = TRUE
  /\ UNCHANGED <<chartSize, options, tree, placedLabels, points, raised,
                 called, log, repeated, changed, optionsGiven, inputAfter>>

Next == PlaceAll \/ ClearDebugInfo

\* one instance, one pass: new LabelPlacer(...).placeAll(points)
Spec == Init /\ [][Next]_vars

-----------------------------------------------------------------------------
(* An instance kept across passes                                          *)

\* longest anchor list of a repeated pass
MaxReusePoints == 2

ReuseAnchors ==
  { Anchor(5000, 5000, <<"A">>, 1000, 1000, TRUE),
    Anchor(600, 0, <<"A">>, 1000, 1000, TRUE) }

ReuseLists == ListsUpTo(ReuseAnchors, MaxReusePoints)

ReuseSetups ==
  { <<[width |-> 10000, height |-> 10000], [rings |-> 0]>>,
    <<[width |-> 10000, height |-> 10000], [rings |-> 1, anglesPerRing |-> 8]>>,
    <<[width |-> 10000, height |-> 10000], [rings |-> 2, anglesPerRing |-> 8]>>,
    <<[width |-> 10000, height |-> 10000], [rings |-> 1, anglesPerRing |-> 0]>>,
    <<[width |-> 1000, height |-> 1000], [rings |-> 1, anglesPerRing |-> 8]>>,
    <<[width |-> 1000, height |-> 1000], [rings |-> 2, anglesPerRing |-> 8]>>,
    <<[width |-> 0, height |-> 10000], [rings |-> 1, anglesPerRing |-> 8]>>,
    <<[width |-> 0, height |-> 0], [rings |-> 1, anglesPerRing |-> 8]>> }

InitReuse ==
  /\ \E setup \in ReuseSetups : /\ chartSize = setup[1]
                                 /\ optionsGiven = setup[2]
                                 /\ options = MergeOptions(setup[2])
  /\ tree = << >>
  /\ placedLabels = << >>
  /\ debugInfo = << >>
  /\ points = << >>
  /\ raised = FALSE
  /\ called = FALSE
  /\ log = << >>
  /\ repeated = FALSE
  /\ changed = FALSE
  /\ inputAfter = << >>
  /\ cleared = FALSE

\* placeAll on an instance that may have run passes before
PlaceAllAgain == \E pts \in ReuseLists : PlaceAllCall(pts)

NextReuse == PlaceAllAgain

SpecReuse == InitReuse /\ [][NextReuse]_vars

-----------------------------------------------------------------------------
(* Vocabulary of the properties                                            *)

\* placeAll has returned (it was called and did not throw)
HasReturned == called /\ ~raised

\* the closed rectangle of a label grown by pad on every side meets that of
\* another label grown likewise
PaddedMeet(a, b, pad) ==
  /\ a.x - pad <= b.x + b.width + pad
  /\ b.x - pad <= a.x + a.width + pad
  /\ a.y - pad <= b.y + b.height + pad
  /\ b.y - pad <= a.y + a.height + pad

\* distance along one axis from the point p to the segment [lo, hi]
AxisGap(lo, hi, p) == IF p < lo THEN lo - p ELSE IF p > hi THEN p - hi ELSE 0

\* some point of the rectangle of label l is closer than r to (px, py)
CloserThan(l, px, py, r) ==
  AxisGap(l.x, l.x + l.width, px) * AxisGap(l.x, l.x + l.width, px)
    + AxisGap(l.y, l.y + l.height, py) * AxisGap(l.y, l.y + l.height, py)
  < r * r

\* the input anchors of the group a label was placed for
MembersOf(l) ==
  { i \in DOMAIN points :
      /\ points[i].text # << >> /\ Trim(points[i].text) # << >>
      /\ GroupKey(points[i]) = GroupKey(l.forPoint) }

\* the area has a non-zero width and a non-zero height
ProperArea == chartSize.width > 0 /\ chartSize.height > 0

-----------------------------------------------------------------------------
(* C1: no two LabelBoxes returned by one placeAll call have intersecting   *)
(* rectangles once each is padded by 2 px on every side.                   *)
C1_NoPaddedOverlap ==
  HasReturned =>
    \A i \in DOMAIN placedLabels : \A j \in DOMAIN placedLabels :
      i < j => ~PaddedMeet(placedLabels[i], placedLabels[j], Px(2))

-----------------------------------------------------------------------------
-----------------------------------------------------------------------------
(* C3: two placeAll passes over the same anchors (same order), area size   *)
(* and options return the same LabelBox sequence: a pass that repeats the  *)
(* anchors of the pass before it on the same instance leaves the same      *)
(* placedLabels.                                                           *)
C3_SameInputSameOutput ==
  [][(called /\ ~raised /\ ~raised' /\ points' = points)
       => placedLabels' = placedLabels]_vars

\* a pass has repeated the anchors of the pass before it and returned two
\* labels
C3_Witness == repeated /\ HasReturned /\ Len(placedLabels) = 2

-----------------------------------------------------------------------------
\* the input anchors, in input order, that have a non-blank text and round to
\* the pixel of point p
GroupOf(p) ==
  SelectSeq(points, LAMBDA q : /\ q.text # << >> /\ Trim(q.text) # << >>
                               /\ GroupKey(q) = GroupKey(p))

\* the texts of the anchors of ms from the n-th on, ", " between them
RECURSIVE CommaJoined(_, _)
CommaJoined(ms, n) ==
  IF n = Len(ms) THEN ms[n].text
  ELSE ms[n].text \o <<",", " ">> \o CommaJoined(ms, n + 1)

\* the returned labels placed for the pixel of point p
LabelsAt(p) ==
  { k \in DOMAIN placedLabels :
      GroupKey(placedLabels[k].forPoint) = GroupKey(p) }

\* label l carries the joined text and the largest width and height of ms
Merges(l, ms) ==
  /\ l.text = CommaJoined(ms, 1)
  /\ \A m \in DOMAIN ms : l.width >= ms[m].width /\ l.height >= ms[m].height
  /\ \E m \in DOMAIN ms : l.width = ms[m].width
  /\ \E m \in DOMAIN ms : l.height = ms[m].height

\* the history entries of the groups that were skipped
Skipped(p) ==
  { n \in DOMAIN log : log[n].kind = "null" /\ GroupKey(log[n].pt) = GroupKey(p) }

(* C4: anchors with non-empty text that round to the same pixel produce    *)
(* exactly one LabelBox, with the members' texts joined by ", " in input   *)
(* order and the per-axis maxima of their widths and heights; anchors that *)
(* round to different pixels are never merged.  Stated for areas of        *)
(* non-zero width and height, where C9 expects labels at all.              *)
C4_OneLabelPerPixel ==
  (HasReturned /\ ProperArea) =>
    /\ \A i \in DOMAIN points :
         Len(GroupOf(points[i])) >= 2 =>
           /\ Cardinality(LabelsAt(points[i])) = 1
           /\ \A k \in LabelsAt(points[i]) :
                Merges(placedLabels[k], GroupOf(points[i]))
    /\ \A k \in DOMAIN placedLabels :
         Merges(placedLabels[k], GroupOf(placedLabels[k].forPoint))

(* C4 as amended: such anchors produce at most one LabelBox, and exactly   *)
(* one unless the group's label is skipped as unplaceable; a LabelBox that *)
(* is produced has the joined text and the maximal width and height of     *)
(* exactly the anchors that round to its pixel.                            *)
C4_AtMostOneLabelPerPixel ==
  HasReturned =>
    \A i \in DOMAIN points :
      (points[i].text # << >> /\ Trim(points[i].text) # << >>) =>
        /\ Cardinality(LabelsAt(points[i])) <= 1
        /\ (LabelsAt(points[i]) = {}) = (Skipped(points[i]) # {})
        /\ \A k \in LabelsAt(points[i]) :
             Merges(placedLabels[k], GroupOf(points[i]))

\* two anchors at different positions of one pixel, with different texts and
\* sizes, have got one label
C4_Witness ==
  /\ HasReturned
  /\ Len(points) = 2 /\ Len(placedLabels) = 1
  /\ points[1].x # points[2].x /\ points[1].width # points[2].width
  /\ placedLabels[1].text = points[1].text \o <<",", " ">> \o points[2].text

-----------------------------------------------------------------------------
(* C5: the returned LabelBoxes are in non-decreasing order of the y of the *)
(* first member of the group each was placed for.                          *)
C5_AscendingY ==
  HasReturned =>
    \A i \in DOMAIN placedLabels : \A j \in DOMAIN placedLabels :
      i < j => GroupOf(placedLabels[i].forPoint)[1].y
                 <= GroupOf(placedLabels[j].forPoint)[1].y

\* two labels were returned for anchors given in descending order of y
C5_Witness ==
  /\ HasReturned
  /\ Len(points) = 2 /\ Len(placedLabels) = 2
  /\ points[1].y > points[2].y

-----------------------------------------------------------------------------
\* the rectangle of size (w, h) at (x, y) lies outside the area by more than
\* 1 px on some side
OutsideArea(x, y, w, h) ==
  \/ x < -Px(1)
  \/ y < -Px(1)
  \/ x + w > chartSize.width + Px(1)
  \/ y + h > chartSize.height + Px(1)

\* candidate c of history entry e lies outside the area
CandidateOutside(e, c) == OutsideArea(c.x, c.y, e.pt.width, e.pt.height)

\* score a is a number greater than -100000
Qualifies(a) == a.k = "fin" /\ a.v > -Massive

\* score a is a number greater than score b
Higher(a, b) ==
  /\ a.k = "fin"
  /\ \/ b.k = "ninf"
     \/ b.k = "fin" /\ a.v > b.v

\* the history entries of the groups that got a label
Labelled == { n \in DOMAIN log : log[n].kind = "label" }

(* C6: a returned LabelBox lies outside the area bounds (x < -1, y < -1,   *)
(* x + width > areaWidth + 1 or y + height > areaHeight + 1) only when no  *)
(* in-bounds candidate of its group had a higher score than the chosen     *)
(* candidate.                                                              *)
C6_OutsideOnlyIfNoBetterInside ==
  HasReturned =>
    \A n \in Labelled :
      CandidateOutside(log[n], log[n].scored[log[n].chosen]) =>
        \A j \in DOMAIN log[n].scored :
          ~CandidateOutside(log[n], log[n].scored[j]) =>
            ~Higher(log[n].scored[j].score,
                    log[n].scored[log[n].chosen].score)

\* a label was returned outside the area although its group had candidates
\* inside the area
C6_Witness ==
  /\ HasReturned /\ ProperArea
  /\ \E n \in Labelled :
       /\ CandidateOutside(log[n], log[n].scored[log[n].chosen])
       /\ \E j \in DOMAIN log[n].scored :
            ~CandidateOutside(log[n], log[n].scored[j])

-----------------------------------------------------------------------------
\* the index after the n-th processed group
TreeAfter(n) == IF n < Len(log) THEN log[n + 1].treeBefore ELSE tree

\* the number of groups among the first n processed that got a label
RECURSIVE LabelledUpTo(_)
LabelledUpTo(n) ==
  IF n = 0 THEN 0
  ELSE LabelledUpTo(n - 1) + (IF log[n].kind = "label" THEN 1 ELSE 0)

(* C7: a group whose highest candidate score is <= -100000 yields no       *)
(* LabelBox and no index insertion; any other group yields exactly one     *)
(* LabelBox, at the position of the highest-scoring candidate, inserted    *)
(* into the index and appended to the result.                              *)
C7_DroppedIffBestTooLow ==
  HasReturned =>
    \A n \in DOMAIN log :
      IF \E j \in DOMAIN log[n].scored : Qualifies(log[n].scored[j].score)
        THEN /\ log[n].kind = "label"
             /\ \A j \in DOMAIN log[n].scored :
                  ~Higher(log[n].scored[j].score,
                          log[n].scored[log[n].chosen].score)
             /\ placedLabels[LabelledUpTo(n)].x = log[n].scored[log[n].chosen].x
             /\ placedLabels[LabelledUpTo(n)].y = log[n].scored[log[n].chosen].y
             /\ TreeAfter(n)
                  = Append(log[n].treeBefore,
                           toRTreeBox(placedLabels[LabelledUpTo(n)]))
        ELSE /\ log[n].kind = "null"
             /\ TreeAfter(n) = log[n].treeBefore

-----------------------------------------------------------------------------
(* C8: placeAll never raises, whatever the anchors, the area size and the  *)
(* options (rings = 0 and anglesPerRing = 0 included).                     *)
C8_NeverRaises == ~raised

-----------------------------------------------------------------------------
(* C9: with an empty anchor list, or an area of zero width or zero height, *)
(* placeAll returns an empty sequence of LabelBoxes.                       *)
C9_EmptyWhenDegenerate ==
  (HasReturned /\ (points = << >> \/ ~ProperArea)) => placedLabels = << >>

-----------------------------------------------------------------------------
\* some point of the rectangle of candidate c of entry e is closer than
\* 7 px to the anchor of e
CandidateInZone(e, c) ==
  CloserThan([x |-> c.x, y |-> c.y, width |-> e.pt.width,
              height |-> e.pt.height], e.pt.x, e.pt.y, Px(7))

\* the call was placeAll of the single anchor (5, 5), labelled 10 x 10, in
\* a 10 x 10 area with at least one ring of at least one angle and an
\* out-of-bounds penalty no larger than the default
FiveFiveCase ==
  /\ called
  /\ chartSize = [width |-> Px(10), height |-> Px(10)]
  /\ options.rings >= 1 /\ options.anglesPerRing >= 1
  /\ options.outOfBoundsPenalty <= DEFAULT_OPTIONS.outOfBoundsPenalty
  /\ Len(points) = 1
  /\ points[1].x = Px(5) /\ points[1].y = Px(5)
  /\ points[1].width = Px(10) /\ points[1].height = Px(10)

(* C10: a group none of whose candidates is both inside the area bounds    *)
(* and clear of its anchor's exclusion zone gets no label, and placeAll of *)
(* a single such anchor returns an empty result.  Stated for areas of      *)
(* non-zero width and height, where every score is finite.                 *)
C10_DroppedWhenNoneInsideAndClear ==
  (HasReturned /\ ProperArea) =>
    \A n \in DOMAIN log :
      (\A j \in DOMAIN log[n].scored :
         \/ CandidateOutside(log[n], log[n].scored[j])
         \/ CandidateInZone(log[n], log[n].scored[j]))
        => log[n].kind = "null"

(* C10 as amended: a group's label is dropped only if none of its          *)
(* candidates, those outside the area included, has a score above -100000; *)
(* lying outside the area does not disqualify a candidate, and the single  *)
(* anchor (5, 5) with a 10 x 10 label in a 10 x 10 area, with rings >= 1,  *)
(* anglesPerRing >= 1 and an out-of-bounds penalty of at most 300, gets    *)
(* one label, outside the area.                                            *)
C10_DroppedOnlyIfNoneQualifies ==
  /\ \A n \in DOMAIN log :
       log[n].kind = "null" =>
         \A j \in DOMAIN log[n].scored : ~Qualifies(log[n].scored[j].score)
  /\ FiveFiveCase =>
       /\ ~raised
       /\ Len(placedLabels) = 1
       /\ OutsideArea(placedLabels[1].x, placedLabels[1].y,
                      placedLabels[1].width, placedLabels[1].height)

\* placeAll of the single anchor (5, 5) in the 10 x 10 area has returned,
\* and every candidate of the group was outside the area or in the zone
C10_Witness ==
  /\ FiveFiveCase /\ HasReturned
  /\ Len(log) = 1
  /\ \A j \in DOMAIN log[1].scored :
       \/ CandidateOutside(log[1], log[1].scored[j])
       \/ CandidateInZone(log[1], log[1].scored[j])

-----------------------------------------------------------------------------
\* the names of the options
OptionNames ==
  {"radius", "rings", "anglesPerRing", "padding", "overlapPenalty",
   "pointPenalty", "outOfBoundsPenalty", "idealAngleBonus", "debug"}

\* option name was left out of the constructor argument
Omitted(name) == name \notin DOMAIN optionsGiven

\* the options in force are those given, and values for the omitted ones
TakesDefaults(values) ==
  \A name \in OptionNames :
    options[name] = IF Omitted(name) THEN values[name] ELSE optionsGiven[name]

\* the candidates of history entry e that isOutOfBounds reports
OutOfBoundsOf(e) ==
  { j \in DOMAIN e.scored :
      isOutOfBounds(chartSize, [x |-> e.scored[j].x, y |-> e.scored[j].y,
                                width |-> e.pt.width, height |-> e.pt.height]) }

\* the first-loop score of candidate c of entry e were the out-of-bounds
\* penalty p (in points) instead of options.outOfBoundsPenalty
ScoreWithPenalty(e, c, p) ==
  ScoreOf(chartSize, [options EXCEPT !.outOfBoundsPenalty = p], e.treeBefore,
          points, e.pt, c)

\* every out-of-bounds candidate of the pass was charged p points
Charged(p) ==
  \A n \in DOMAIN log : \A j \in OutOfBoundsOf(log[n]) :
    log[n].scored[j].first
      = Plus(ScoreWithPenalty(log[n], log[n].scored[j], 0), -Px(p))

(* C11: every option omitted from the constructor argument takes the       *)
(* documented default (radius 10, rings 5, anglesPerRing 32, padding 0,    *)
(* overlapPenalty 100000, pointPenalty 500, outOfBoundsPenalty 0,          *)
(* idealAngleBonus 0, debug false), and a LabelPlacer built with no        *)
(* options charges out-of-bounds candidates 0 points.                      *)
C11_DocumentedDefaults ==
  /\ TakesDefaults([radius |-> 10, rings |-> 5, anglesPerRing |-> 32,
                    padding |-> 0, overlapPenalty |-> 100000,
                    pointPenalty |-> 500, outOfBoundsPenalty |-> 0,
                    idealAngleBonus |-> 0, debug |-> FALSE])
  /\ optionsGiven = << >> => Charged(0)

(* C11 as amended: every omitted option takes the default of               *)
(* DEFAULT_OPTIONS (radius 10, rings 5, anglesPerRing 32, padding 4,       *)
(* overlapPenalty 1000, pointPenalty 500, outOfBoundsPenalty 300,          *)
(* idealAngleBonus 0, debug false), and a LabelPlacer built with no        *)
(* options charges every out-of-bounds candidate 300 points.               *)
C11_SourceDefaults ==
  /\ TakesDefaults([radius |-> 10, rings |-> 5, anglesPerRing |-> 32,
                    padding |-> 4, overlapPenalty |-> 1000,
                    pointPenalty |-> 500, outOfBoundsPenalty |-> 300,
                    idealAngleBonus |-> 0, debug |-> FALSE])
  /\ optionsGiven = << >> => Charged(300)

\* a LabelPlacer built with no options has placed a label for a group that
\* had out-of-bounds candidates
C11_Witness ==
  /\ optionsGiven = << >> /\ HasReturned
  /\ \E n \in Labelled : OutOfBoundsOf(log[n]) # {}

-----------------------------------------------------------------------------
\* what placeAll(points) returns on a new instance with the same area size
\* and options
FreshResult == placeAll(chartSize, options, << >>, points).placedLabels

(* C12: the engine holds no state across passes: placeAll(B) on an         *)
(* instance that ran placeAll(A) before returns the LabelBox sequence that *)
(* placeAll(B) returns on a fresh instance of the same area and options.   *)
C12_NoStateAcrossPasses == HasReturned => placedLabels = FreshResult

\* a pass over other anchors than those of the pass before it has returned
\* labels, its first group finding the index empty
C12_Witness ==
  /\ changed /\ HasReturned
  /\ placedLabels # << >>
  /\ log[1].treeBefore = << >>

-----------------------------------------------------------------------------
\* the pass over the same anchors on a new instance whose options differ in
\* debug only
OtherDebugPass ==
  placeAll(chartSize, [options EXCEPT !.debug = ~@], << >>, points)

\* pass st ended as the last call did
SameOutcome(st) ==
  /\ st.raised = raised
  /\ ~raised => st.placedLabels = placedLabels

(* C13: diagnostics never affect the placement outcome: for the same       *)
(* anchors, area size and other options, placeAll returns the same         *)
(* LabelBox sequence with debug = true as with debug = false.              *)
C13_DebugDoesNotAffectOutcome == called => SameOutcome(OtherDebugPass)

\* a pass with debug = true has returned labels
C13_Witness == HasReturned /\ options.debug /\ Len(placedLabels) = 2

-----------------------------------------------------------------------------
(* C14: a DiagnosticsEntry is appended only if diagnostics are enabled:    *)
(* with the debug option false or omitted, getDebugInfo() returns an empty *)
(* sequence after any placeAll pass.  Stated for areas of non-zero width   *)
(* and height, where a label that is placed is placed on a finite score.   *)
C14_NoEntriesWhenDebugOff ==
  (called /\ ProperArea /\ ~options.debug) => debugInfo = << >>

-----------------------------------------------------------------------------
\* diagnostics entry d lists, in generation order, every candidate that
\* generateCandidates returns for the Point of history entry e, with the
\* score of the first loop
ListsEveryCandidate(d, e, generated) ==
  /\ d.point = e.pt
  /\ Len(d.candidates) = Len(generated)
  /\ \A j \in DOMAIN generated :
       /\ d.candidates[j].x = generated[j].x
       /\ d.candidates[j].y = generated[j].y
       /\ d.candidates[j].score = e.scored[j].first

\* diagnostics entry d is the entry of history entry e
EntryOf(d, e) ==
  ListsEveryCandidate(d, e, generateCandidates(chartSize, options, e.pt))

\* the processed groups that got a label, in processing order
LabelledInOrder ==
  SelectSeq([n \in 1..Len(log) |-> n], LAMBDA n : log[n].kind = "label")

\* the diagnostics hold one entry per processed group, in processing order
EntryPerProcessedGroup ==
  /\ Len(debugInfo) = Len(log)
  /\ \A n \in DOMAIN debugInfo : n \in DOMAIN log => EntryOf(debugInfo[n], log[n])

\* the diagnostics hold one entry per group that got a label, in processing
\* order
EntryPerLabelledGroup ==
  /\ Len(debugInfo) = Len(LabelledInOrder)
  /\ \A k \in DOMAIN debugInfo :
       k \in DOMAIN LabelledInOrder
         => EntryOf(debugInfo[k], log[LabelledInOrder[k]])

(* C15: with diagnostics enabled, a pass leaves exactly one diagnostics    *)
(* entry for every processed group, placed or dropped, in processing       *)
(* order, each listing every candidate generated for the group.            *)
C15_EntryPerProcessedGroup ==
  (HasReturned /\ ~cleared /\ options.debug) => EntryPerProcessedGroup

(* C15 as amended: a pass leaves exactly one diagnostics entry for every   *)
(* group that got a label, and none for a dropped group, in processing     *)
(* order, each listing every candidate generated for the group; this is so *)
(* whatever the debug option.                                              *)
C15_EntryPerLabelledGroup == (called /\ ~cleared) => EntryPerLabelledGroup

\* a pass with debug = true has returned after dropping one group and
\* labelling another, and its diagnostics are there
C15_Witness ==
  /\ HasReturned /\ options.debug
  /\ debugInfo # << >>
  /\ \E n \in DOMAIN log : log[n].kind = "null"

-----------------------------------------------------------------------------
(* C16: the diagnostics are cleared at the start of each pass: after any   *)
(* sequence of placeAll calls, getDebugInfo() holds only the entries of    *)
(* the most recent pass, one for each group it labelled.                   *)
C16_OnlyEntriesOfLastPass ==
  called =>
    /\ Len(debugInfo) = Cardinality(Labelled)
    /\ \A k \in DOMAIN debugInfo :
         k \in DOMAIN LabelledInOrder
           => /\ debugInfo[k].point = log[LabelledInOrder[k]].pt
              /\ Len(debugInfo[k].placedLabels) = k - 1

\* a pass that repeats the anchors of the pass before it, which therefore
\* left entries too, has left its entries
C16_Witness == repeated /\ HasReturned /\ debugInfo # << >>

-----------------------------------------------------------------------------
\* text t is empty or consists of spaces only
Blank(t) == \A i \in DOMAIN t : t[i] = " "

\* the pixel the coordinates of p round to
Pixel(p) == <<(p.x + 50) \div 100, (p.y + 50) \div 100>>

\* the input anchors with a non-blank text at the pixel of p, in input order
NonBlankAt(p) ==
  SelectSeq(points, LAMBDA q : ~Blank(q.text) /\ Pixel(q) = Pixel(p))

\* the pixels of the input anchors with a non-blank text
LabelledPixels == { Pixel(points[i]) : i \in { j \in DOMAIN points :
                                                 ~Blank(points[j].text) } }

(* C17: anchors whose text is empty or whitespace-only are filtered out    *)
(* before grouping: they produce no LabelBox, contribute no text to a      *)
(* merged label, and do not influence the width or height of a merged      *)
(* group.                                                                  *)
C17_BlankAnchorsIgnored ==
  HasReturned =>
    /\ Len(placedLabels) <= Cardinality(LabelledPixels)
    /\ \A k \in DOMAIN placedLabels :
         /\ NonBlankAt(placedLabels[k].forPoint) # << >>
         /\ Merges(placedLabels[k], NonBlankAt(placedLabels[k].forPoint))

\* a blank anchor with a large box and a smaller anchor with a text round
\* to the same pixel, and the one label returned has the smaller box
C17_Witness ==
  /\ HasReturned
  /\ Len(points) = 2 /\ Len(placedLabels) = 1
  /\ \E i \in DOMAIN points : \E j \in DOMAIN points :
       /\ Blank(points[i].text) /\ ~Blank(points[j].text)
       /\ Pixel(points[i]) = Pixel(points[j])
       /\ points[i].width > points[j].width
       /\ placedLabels[1].width = points[j].width

-----------------------------------------------------------------------------
(* C18: placeAll treats its input as read-only: after the call the input   *)
(* array has the same elements in the same order, and every input anchor   *)
(* has its x, y, text, width and height unchanged, the members of merged   *)
(* groups included.                                                        *)
C18_InputUnchanged == called => inputAfter = points

\* a pass has merged two anchors of different texts and sizes into one
\* label
C18_Witness ==
  /\ HasReturned
  /\ Len(points) = 2 /\ Len(placedLabels) = 1
  /\ ~Blank(points[1].text) /\ ~Blank(points[2].text)
  /\ points[1].width < points[2].width
  /\ placedLabels[1].width = points[2].width
  /\ placedLabels[1].text # points[1].text

-----------------------------------------------------------------------------
\* the place in the input list of the first anchor of the group that label
\* l was placed for
FirstPlace(l) == NonBlankAt(l.forPoint)[1].id

(* C19: groups whose first members have equal y are processed, and their   *)
(* labels output, in the order in which each group's first anchor appears  *)
(* in the input list.                                                      *)
C19_TiesInInputOrder ==
  called =>
    /\ \A a \in DOMAIN log : \A b \in DOMAIN log :
         (a < b /\ log[a].members[1].y = log[b].members[1].y)
           => log[a].members[1].id < log[b].members[1].id
    /\ \A i \in DOMAIN placedLabels : \A j \in DOMAIN placedLabels :
         (i < j /\ placedLabels[i].forPoint.y = placedLabels[j].forPoint.y)
           => FirstPlace(placedLabels[i]) < FirstPlace(placedLabels[j])

\* two labels were returned, in input order, for two anchors of equal y
\* of which the first has the larger x
C19_Witness ==
  /\ HasReturned /\ ProperArea
  /\ Len(points) = 2 /\ Len(placedLabels) = 2
  /\ points[1].y = points[2].y /\ points[1].x > points[2].x
  /\ placedLabels[1].forPoint.x = points[1].x

-----------------------------------------------------------------------------
\* the centre of the rectangle of candidate c of history entry e is at
\* least 7 px from the anchor of e
CentreFarEnough(e, c) ==
  (c.x + e.pt.width \div 2 - e.pt.x) * (c.x + e.pt.width \div 2 - e.pt.x)
    + (c.y + e.pt.height \div 2 - e.pt.y) * (c.y + e.pt.height \div 2 - e.pt.y)
  >= Px(7) * Px(7)

(* C20: every candidate that generateCandidates returns, from any of its   *)
(* four passes (primary, expanding, fallback, half-step), has its          *)
(* rectangle's centre at least exclusionRadius (7 px) from the anchor.     *)
C20_CandidateCentresFarEnough ==
  \A n \in DOMAIN log : \A j \in DOMAIN log[n].scored :
    CentreFarEnough(log[n], log[n].scored[j])

\* a group had candidates of the expanding pass next to those of the
\* fallback and half-step passes (which are never filtered)
C20_Witness ==
  /\ called /\ options.rings >= 2
  /\ \E n \in DOMAIN log :
       Len(log[n].scored)
         > primaryAngles + 2 * options.rings * options.anglesPerRing

-----------------------------------------------------------------------------
\* the candidates of history entry e that the primary and the expanding ring
\* produced: generateCandidates puts them before the 2 * rings * anglesPerRing
\* candidates of the fallback and half-step rings
ClampedOf(e) == 1..(Len(e.scored) - 2 * RingSteps(options))

\* the largest x (y) at which a label of the size of entry e still ends 1 px
\* before the right (bottom) edge of the area
LastX(e) == chartSize.width - Px(1) - e.pt.width

LastY(e) == chartSize.height - Px(1) - e.pt.height

(* C21: every primary-ring and expanding-ring candidate has x in           *)
(* [1, areaWidth - 1 - labelWidth] and y in [1, areaHeight - 1 -           *)
(* labelHeight], labels wider or taller than the area minus the margins    *)
(* included.  Stated for areas of non-zero width and height.               *)
C21_ClampedIntoArea ==
  (called /\ ProperArea) =>
    \A n \in DOMAIN log : \A j \in ClampedOf(log[n]) :
      /\ Px(1) <= log[n].scored[j].x /\ log[n].scored[j].x <= LastX(log[n])
      /\ Px(1) <= log[n].scored[j].y /\ log[n].scored[j].y <= LastY(log[n])

(* C21 as amended: every primary-ring and expanding-ring candidate has     *)
(* x >= 1 and y >= 1; its x is at most areaWidth - 1 - labelWidth when     *)
(* that is at least 1 and is 1 otherwise, and likewise its y.              *)
C21_ClampedLowerBoundWins ==
  \A n \in DOMAIN log : \A j \in ClampedOf(log[n]) :
    /\ Px(1) <= log[n].scored[j].x
    /\ log[n].scored[j].x <= Max2(Px(1), LastX(log[n]))
    /\ Px(1) <= log[n].scored[j].y
    /\ log[n].scored[j].y <= Max2(Px(1), LastY(log[n]))

\* a pass had a clamped candidate, at x = 1, for a label wider than the area
\* minus the margins
C21_Witness ==
  /\ called /\ ProperArea
  /\ \E n \in DOMAIN log : \E j \in ClampedOf(log[n]) :
       /\ LastX(log[n]) < Px(1)
       /\ log[n].scored[j].x = Px(1)

-----------------------------------------------------------------------------
\* the candidates of history entry e that the fallback ring produced (radius
\* 7 + 5 * ring, not clamped): the last but rings * anglesPerRing candidates
FallbackOf(e) ==
  (Len(e.scored) - 2 * RingSteps(options) + 1)..(Len(e.scored) - RingSteps(options))

\* the rectangle of candidate c of history entry e
RectOf(e, c) == [x |-> c.x, y |-> c.y, width |-> e.pt.width, height |-> e.pt.height]

\* candidate c of entry e, padded by 2 px, meets the padded box of a label
\* placed before the group of e
Collides(e, c) ==
  \E k \in DOMAIN e.treeBefore :
    PaddedMeet(RectOf(e, c), e.treeBefore[k].ref, Px(2))

\* the rectangle of candidate c of entry e overlaps the square of side 14 px
\* around the anchor of e (which contains the exclusion disk)
InZoneSquare(e, c) ==
  /\ c.x < e.pt.x + Px(7) /\ c.x + e.pt.width > e.pt.x - Px(7)
  /\ c.y < e.pt.y + Px(7) /\ c.y + e.pt.height > e.pt.y - Px(7)

\* candidate c of entry e failed the overlap check or the boundary check
Failed(e, c) == Collides(e, c) \/ InZoneSquare(e, c)

-----------------------------------------------------------------------------
\* the final score of candidate c of history entry e: the sum of the terms
\* of the first loop, less 100000 when the rectangle violates the zone
FinalScore(e, c) == Plus(c.first, IF InZoneSquare(e, c) THEN -Massive ELSE 0)

\* the final score of the candidate committed for entry e
ChosenScore(e) == FinalScore(e, e.scored[e.chosen])

(* C23: the committed candidate of a group has the maximum final score     *)
(* (the boundary-violation penalty included) over all of the group's       *)
(* candidates, and among the candidates tied at that maximum it is the     *)
(* earliest in generation order.                                           *)
C23_MaxScoreEarliestOnTie ==
  \A n \in Labelled : \A j \in DOMAIN log[n].scored :
    /\ ~Higher(FinalScore(log[n], log[n].scored[j]), ChosenScore(log[n]))
    /\ j < log[n].chosen
         => Higher(ChosenScore(log[n]), FinalScore(log[n], log[n].scored[j]))

\* a candidate was committed that a later candidate ties with, while a
\* candidate with a higher sum of first-loop terms violated the zone
C23_Witness ==
  /\ HasReturned /\ ProperArea
  /\ \E n \in Labelled :
       /\ \E j \in DOMAIN log[n].scored :
            /\ j > log[n].chosen
            /\ FinalScore(log[n], log[n].scored[j]) = ChosenScore(log[n])
       /\ \E j \in DOMAIN log[n].scored :
            /\ InZoneSquare(log[n], log[n].scored[j])
            /\ Higher(log[n].scored[j].first,
                      log[n].scored[log[n].chosen].first)

-----------------------------------------------------------------------------
(* C24: every candidate whose 2-px-padded rectangle intersects at least    *)
(* one indexed box receives a total score <= -100000, whatever the value   *)
(* of options.overlapPenalty: the centre bonus never lifts a colliding     *)
(* candidate above the drop threshold.                                     *)
C24_CollisionDisqualifies ==
  \A n \in DOMAIN log : \A j \in DOMAIN log[n].scored :
    Collides(log[n], log[n].scored[j])
      => ScoreLeq(log[n].scored[j].score, -Massive)

-----------------------------------------------------------------------------
\* the rectangle of label l overlaps the square of side 14 px around the
\* anchor the label was placed for
LabelInZoneSquare(l) ==
  /\ l.x < l.forPoint.x + Px(7) /\ l.x + l.width > l.forPoint.x - Px(7)
  /\ l.y < l.forPoint.y + Px(7) /\ l.y + l.height > l.forPoint.y - Px(7)

\* the corner (x, y) is closer than 7 px to the anchor of label l
CornerNear(l, x, y) ==
  (x - l.forPoint.x) * (x - l.forPoint.x)
    + (y - l.forPoint.y) * (y - l.forPoint.y) < Px(7) * Px(7)

(* C25: no returned LabelBox overlaps the axis-aligned bounding square     *)
(* (side 14 px) of the exclusion disk of its own anchor, and none has a    *)
(* corner closer than 7 px to its own anchor.                              *)
C25_ClearOfOwnZoneSquare ==
  HasReturned =>
    \A k \in DOMAIN placedLabels :
      /\ ~LabelInZoneSquare(placedLabels[k])
      /\ ~CornerNear(placedLabels[k], placedLabels[k].x, placedLabels[k].y)
      /\ ~CornerNear(placedLabels[k], placedLabels[k].x + placedLabels[k].width,
                     placedLabels[k].y)
      /\ ~CornerNear(placedLabels[k], placedLabels[k].x,
                     placedLabels[k].y + placedLabels[k].height)
      /\ ~CornerNear(placedLabels[k], placedLabels[k].x + placedLabels[k].width,
                     placedLabels[k].y + placedLabels[k].height)

-----------------------------------------------------------------------------
\* the index entry of label l: its rectangle grown by 2 px on every side
PaddedEntry(l) ==
  [minX |-> l.x - Px(2), minY |-> l.y - Px(2),
   maxX |-> l.x + l.width + Px(2), maxY |-> l.y + l.height + Px(2), ref |-> l]

\* the entries of the first k labels committed in this pass
EntriesOfFirst(k) == [i \in 1..k |-> PaddedEntry(placedLabels[i])]

(* C26: at every point of a pass the spatial index holds exactly one entry *)
(* per LabelBox committed so far in this pass (that box padded by 2 px),   *)
(* none for dropped groups and none of earlier passes: before each group   *)
(* and at the end of the pass it holds the entries of the labels committed *)
(* until then, so that it changes only by the one insert that follows a    *)
(* placement.                                                              *)
C26_IndexIsCommittedLabels ==
  called =>
    /\ \A n \in DOMAIN log :
         log[n].treeBefore = EntriesOfFirst(LabelledUpTo(n - 1))
    /\ tree = EntriesOfFirst(LabelledUpTo(Len(log)))
    /\ Len(placedLabels) = LabelledUpTo(Len(log))

\* a pass on an instance that had run a pass before has committed a label
\* and dropped a group
C26_Witness ==
  /\ (repeated \/ changed) /\ HasReturned
  /\ tree # << >>
  /\ \E n \in DOMAIN log : log[n].kind = "null"

-----------------------------------------------------------------------------
(* C27: a group's label is dropped only if every one of its candidates     *)
(* collides with an already-indexed padded box or violates the exclusion   *)
(* zone of its own anchor: the soft terms alone never bring the best score *)
(* to <= -100000.  Stated for areas of non-zero width and height, where    *)
(* every score is finite and C9 does not ask for an empty result.          *)
C27_DroppedOnlyIfAllFail ==
  (HasReturned /\ ProperArea) =>
    \A n \in DOMAIN log :
      log[n].kind = "null" =>
        \A j \in DOMAIN log[n].scored : Failed(log[n], log[n].scored[j])

-----------------------------------------------------------------------------
\* the candidate that diagnostics entry d marks as selected
\* (selectedCandidateIndex counts from 0)
SelectedOf(d) == d.candidates[d.selectedCandidateIndex + 1]

(* C28: in every diagnostics entry, selectedCandidateIndex is the position *)
(* within the entry's own candidates list of the candidate that was        *)
(* committed: that candidate has the x and y of the LabelBox placed for    *)
(* the group (the k-th entry belongs to the k-th LabelBox).                *)
C28_SelectedIndexIsCommitted ==
  \A k \in DOMAIN debugInfo :
    /\ SelectedOf(debugInfo[k]).x = placedLabels[k].x
    /\ SelectedOf(debugInfo[k]).y = placedLabels[k].y

-----------------------------------------------------------------------------
\* the point-coverage penalty, in 1/100 point, that the first loop charges
\* candidate c of history entry e
PointPenaltyOf(e, c) == -PointTerm(options, points, e.pt, c)

\* the input anchors that are no member of the group of entry e and lie in
\* the rectangle of candidate c, edges included
CoveredOthers(e, c) ==
  { i \in DOMAIN points :
      /\ \A m \in DOMAIN e.members : e.members[m].id # points[i].id
      /\ c.x <= points[i].x /\ points[i].x <= c.x + e.pt.width
      /\ c.y <= points[i].y /\ points[i].y <= c.y + e.pt.height }

(* C29: the point-coverage penalty of a candidate equals pointPenalty      *)
(* times the number of input anchors, other than the anchors of the        *)
(* candidate's own group, whose (x, y) lies inside the candidate rectangle *)
(* (edges included), for merged groups and for anchors passed without an   *)
(* allPoints back-reference as well.  Stated for areas of non-zero width  *)
(* and height.                                                             *)
C29_PointPenaltyCountsOthers ==
  (called /\ ProperArea) =>
    \A n \in DOMAIN log : \A j \in DOMAIN log[n].scored :
      PointPenaltyOf(log[n], log[n].scored[j])
        = Px(options.pointPenalty)
            * Cardinality(CoveredOthers(log[n], log[n].scored[j]))

-----------------------------------------------------------------------------
\* the gap between the segments [lo1, hi1] and [lo2, hi2] of one axis
\* (negative or zero when they meet)
GapBetween(lo1, hi1, lo2, hi2) == Max2(lo2 - hi1, lo1 - hi2)

\* the rectangles of labels a and b are more than 4 px apart along an axis
ApartAlongAnAxis(a, b) ==
  \/ GapBetween(a.x, a.x + a.width, b.x, b.x + b.width) > Px(4)
  \/ GapBetween(a.y, a.y + a.height, b.y, b.y + b.height) > Px(4)

(* C30: any two LabelBoxes returned by one pass are separated by a gap of  *)
(* more than 4 px along at least one axis (unpadded rectangles), the index *)
(* entry and the query both being padded by 2 px and touching boxes        *)
(* counting as intersecting.                                               *)
C30_GapOfMoreThanFour ==
  HasReturned =>
    \A i \in DOMAIN placedLabels : \A j \in DOMAIN placedLabels :
      i # j => ApartAlongAnAxis(placedLabels[i], placedLabels[j])

====
